---- MODULE Spec2Model ----
(***************************************************************************)
(* A model of memorise_api_demo.py: the three Service Client functions     *)
(* (classify, ner, translate), the response normalizer (request), the file *)
(* upload handler and the Gradio event wiring.                             *)
(*                                                                         *)
(* Python values are encoded as follows.                                   *)
(*   - a str used only as a whole (text, names, URLs) is a TLA+ string;    *)
(*   - a str that the code inspects by characters (language codes, which   *)
(*     are matched with str.startswith) is a sequence of 1-character       *)
(*     strings;                                                            *)
(*   - a JSON object with fixed keys is a record; a result record of a     *)
(*     service (a dict whose keys vary and are ordered) is a sequence of   *)
(*     <<key, value>> pairs;                                               *)
(*   - the outcome of evaluating an expression is Ret(v) or Raise(e);      *)
(*   - a value shown in an output component is Str(s) or a DataFrame.      *)
(***************************************************************************)
EXTENDS Integers, Sequences, FiniteSets, TLC

VARIABLES
    text,              \* value of the "Input text" Textbox
    tgt_lang,          \* value of the "Target language" Dropdown
    table_output,      \* value of the "Information extraction output" DataFrame
    translate_output,  \* value of the "Translation output" Textbox
    calls,             \* handler invocations in flight, in click order
    finished,          \* the handler that ran to its end in the step just taken
    arrived            \* the latest end of a handler of a table trigger

vars == <<text, tgt_lang, table_output, translate_output, calls, finished, arrived>>

-----------------------------------------------------------------------------
(* Bounds of the model *)

\* longest supported-language list the translation service returns
MaxLangs == 2
\* longest "results" list a service returns
MaxRecords == 2
\* most handler invocations in flight at once
MaxInFlight == 2

-----------------------------------------------------------------------------
(* Python outcomes and generic helpers *)

NoExc == "no exception"
None == "None"

Ret(v) == [raised |-> NoExc, value |-> v]
Raise(e) == [raised |-> e, value |-> None]

Range(s) == {s[i] : i \in 1..Len(s)}

SeqsUpTo(S, n) == UNION {[1..k -> S] : k \in 0..n}

\* str.startswith on character sequences
startswith(s, prefix) ==
    /\ Len(prefix) <= Len(s)
    /\ \A i \in 1..Len(prefix) : s[i] = prefix[i]

LowerChar ==
    [c \in {"A", "B", "C", "D", "E", "F", "G", "H", "I", "J", "K", "L", "M",
            "N", "O", "P", "Q", "R", "S", "T", "U", "V", "W", "X", "Y", "Z"} |->
        CASE c = "A" -> "a" [] c = "B" -> "b" [] c = "C" -> "c" [] c = "D" -> "d"
          [] c = "E" -> "e" [] c = "F" -> "f" [] c = "G" -> "g" [] c = "H" -> "h"
          [] c = "I" -> "i" [] c = "J" -> "j" [] c = "K" -> "k" [] c = "L" -> "l"
          [] c = "M" -> "m" [] c = "N" -> "n" [] c = "O" -> "o" [] c = "P" -> "p"
          [] c = "Q" -> "q" [] c = "R" -> "r" [] c = "S" -> "s" [] c = "T" -> "t"
          [] c = "U" -> "u" [] c = "V" -> "v" [] c = "W" -> "w" [] c = "X" -> "x"
          [] c = "Y" -> "y" [] c = "Z" -> "z"]

\* str.lower on character sequences
lower(s) == [i \in 1..Len(s) |-> IF s[i] \in DOMAIN LowerChar THEN LowerChar[s[i]] ELSE s[i]]

\* d[k] on a JSON object
subscript(d, k) == IF k \in DOMAIN d THEN Ret(d[k]) ELSE Raise("KeyError")

-----------------------------------------------------------------------------
(* Static configuration *)

LANG_2_FLORES ==
    [n \in {"Czech", "Danish", "Dutch", "English", "German", "Hebrew",
            "Hungarian", "Polish", "Ukrainian"} |->
        CASE n = "Czech"     -> <<"c", "e", "s", "_", "L", "a", "t", "n">>
          [] n = "Danish"    -> <<"d", "a", "n", "_", "L", "a", "t", "n">>
          [] n = "Dutch"     -> <<"n", "l", "d", "_", "L", "a", "t", "n">>
          [] n = "English"   -> <<"e", "n", "g", "_", "L", "a", "t", "n">>
          [] n = "German"    -> <<"d", "e", "u", "_", "L", "a", "t", "n">>
          [] n = "Hebrew"    -> <<"h", "e", "b", "_", "H", "e", "b", "r">>
          [] n = "Hungarian" -> <<"h", "u", "n", "_", "L", "a", "t", "n">>
          [] n = "Polish"    -> <<"p", "o", "l", "_", "L", "a", "t", "n">>
          [] n = "Ukrainian" -> <<"u", "k", "r", "_", "C", "y", "r", "l">>]

SEMTAG == "https://semtag-api.dev.memorise.sdu.dk/semtag"
NER == "https://semtag-api.dev.memorise.sdu.dk/ner"
MT == "https://quest.ms.mff.cuni.cz/dimbu"

-----------------------------------------------------------------------------
(* The language detector *)

Language(code) == [language |-> TRUE, iso_code_639_3 |-> [name |-> code]]
NoLanguage == [language |-> FALSE]

\* The detector on the sample texts: a Language, whose iso_code_639_3.name is
\* the upper-case ISO 639-3 code, or no language (Python's None).
langdetector ==
    [t \in {"Hello world", "Bonjour", "12345", ""} |->
        CASE t = "Hello world" -> Language(<<"E", "N", "G">>)
          [] t = "Bonjour"     -> Language(<<"F", "R", "A">>)
          [] t = "12345"       -> NoLanguage
          [] t = ""            -> NoLanguage]

detect_language_of(t) == langdetector[t]

-----------------------------------------------------------------------------
(* pandas *)

NaN == "NaN"

record_keys(rec) == [i \in 1..Len(rec) |-> rec[i][1]]

record_get(rec, k) ==
    LET i == CHOOSE j \in 1..Len(rec) : rec[j][1] = k IN rec[i][2]

RECURSIVE add_new(_, _)
\* cols followed by the elements of keys not yet in it, in order
add_new(cols, keys) ==
    IF keys = <<>> THEN cols
    ELSE add_new(IF Head(keys) \in Range(cols) THEN cols ELSE Append(cols, Head(keys)),
                 Tail(keys))

RECURSIVE union_columns(_, _)
union_columns(cols, records) ==
    IF records = <<>> THEN cols
    ELSE union_columns(add_new(cols, record_keys(Head(records))), Tail(records))

DataFrame(columns, rows) == [type |-> "DataFrame", columns |-> columns, rows |-> rows]

\* pd.DataFrame.from_records on a list of dicts: the columns are the keys in
\* order of first appearance, a field a record lacks is NaN.
from_records(records) ==
    LET columns == union_columns(<<>>, records) IN
    DataFrame(columns,
              [i \in 1..Len(records) |->
                  [c \in Range(columns) |->
                      IF c \in Range(record_keys(records[i]))
                      THEN record_get(records[i], c) ELSE NaN]])

\* drop that leaves the frame as it is
drop_nothing(df, col) == df

\* DataFrame.drop(columns=[col])
drop(df, col) ==
    DataFrame(SelectSeq(df.columns, LAMBDA c : c # col),
              [i \in 1..Len(df.rows) |->
                  [c \in Range(df.columns) \ {col} |-> df.rows[i][c]]])

Str(s) == [type |-> "str", value |-> s]

-----------------------------------------------------------------------------
(* The response normalizer *)

\* request with the checks for "text" and "detail" in the other order
request_detail_first(response) ==
    IF response.raised # NoExc THEN response
    ELSE IF "detail" \in DOMAIN response.value THEN Ret(Str(response.value.detail))
    ELSE IF "text" \in DOMAIN response.value THEN Ret(Str(response.value.text))
    ELSE IF "results" \notin DOMAIN response.value THEN Raise("KeyError")
    ELSE LET results == from_records(response.value.results) IN
         Ret(IF "score" \in Range(results.columns) THEN drop(results, "score") ELSE results)

\* request, lines 55-60, on the outcome of fn(**kwargs)
request(response) ==
    IF response.raised # NoExc THEN response
    ELSE IF "text" \in DOMAIN response.value THEN Ret(Str(response.value.text))
    ELSE IF "detail" \in DOMAIN response.value THEN Ret(Str(response.value.detail))
    ELSE IF "results" \notin DOMAIN response.value THEN Raise("KeyError")
    ELSE LET results == from_records(response.value.results) IN
         Ret(IF "score" \in Range(results.columns) THEN drop(results, "score") ELSE results)

-----------------------------------------------------------------------------
(* HTTP *)

\* The body of a reply: JSON text (given by the value it parses to) or not.
Json(v) == [json |-> TRUE, value |-> v]
NotJSON == [json |-> FALSE]

\* What requests.get / requests.post comes back with: a response or an exception.
Response(body) == [exc |-> NoExc, text |-> body]
ConnectionError == [exc |-> "ConnectionError", text |-> NotJSON]

json_loads(body) == IF body.json THEN Ret(body.value) ELSE Raise("JSONDecodeError")

Get(url) == [method |-> "GET", url |-> url]
Post(url, json) == [method |-> "POST", url |-> url, json |-> json]

-----------------------------------------------------------------------------
(* The Service Client.  A function that waits for a reply is given by the    *)
(* request it sends and by what it does once the reply is there.             *)

classify_request(t) == Post(SEMTAG \o "/classify", [text |-> t])

\* classify, lines 28-29, from the reply on
classify(reply) == IF reply.exc # NoExc THEN Raise(reply.exc) ELSE json_loads(reply.text)

ner_request(t) == Post(NER \o "/ner", [text |-> t])

\* ner, lines 33-34, from the reply on
ner(reply) == IF reply.exc # NoExc THEN Raise(reply.exc) ELSE json_loads(reply.text)

get_supported_languages_request == Get(MT \o "/supported_languages")

\* get_supported_languages answering with an empty list when the GET fails
get_supported_languages_swallow(reply) ==
    IF reply.exc # NoExc THEN Ret([supported_languages |-> <<>>]) ELSE json_loads(reply.text)

\* get_supported_languages, line 38, from the reply on
get_supported_languages(reply) ==
    IF reply.exc # NoExc THEN Raise(reply.exc) ELSE json_loads(reply.text)

\* [l for l in all_langs if l.startswith(lang)][-1]
last_match(all_langs, lang) ==
    LET matches == SelectSeq(all_langs, LAMBDA l : startswith(l, lang)) IN
    IF matches = <<>> THEN Raise("IndexError") ELSE Ret(matches[Len(matches)])

\* [l for l in all_langs if l.startswith(lang)][0]
first_match(all_langs, lang) ==
    LET matches == SelectSeq(all_langs, LAMBDA l : startswith(l, lang)) IN
    IF matches = <<>> THEN Raise("IndexError") ELSE Ret(matches[1])

Send(req) == [raised |-> NoExc, send |-> req]

\* translate returning the input text when no language is detected
translate_echo(t, l, reply) ==
    LET fetched == get_supported_languages(reply) IN
    IF fetched.raised # NoExc THEN fetched
    ELSE LET all_langs == subscript(fetched.value, "supported_languages") IN
    IF all_langs.raised # NoExc THEN all_langs
    ELSE LET lang == detect_language_of(t) IN
    IF ~lang.language THEN Ret([text |-> t])
    ELSE LET src_lang == first_match(all_langs.value, lower(lang.iso_code_639_3.name)) IN
    IF src_lang.raised # NoExc THEN src_lang
    ELSE LET tgt == subscript(LANG_2_FLORES, l) IN
    IF tgt.raised # NoExc THEN tgt
    ELSE Send(Post(MT \o "/translate",
                   [text |-> t, src_lang |-> src_lang.value, tgt_lang |-> tgt.value]))

\* translate without the check of line 44: an undetected language is sent on
\* as the empty source language
translate_unchecked(t, l, reply) ==
    LET fetched == get_supported_languages(reply) IN
    IF fetched.raised # NoExc THEN fetched
    ELSE LET all_langs == subscript(fetched.value, "supported_languages") IN
    IF all_langs.raised # NoExc THEN all_langs
    ELSE LET lang == detect_language_of(t)
             src_lang == IF lang.language
                         THEN first_match(all_langs.value, lower(lang.iso_code_639_3.name))
                         ELSE Ret(<<>>) IN
    IF src_lang.raised # NoExc THEN src_lang
    ELSE LET tgt == subscript(LANG_2_FLORES, l) IN
    IF tgt.raised # NoExc THEN tgt
    ELSE Send(Post(MT \o "/translate",
                   [text |-> t, src_lang |-> src_lang.value, tgt_lang |-> tgt.value]))

\* translate, lines 42-49, from the reply to the GET on: an exception, a
\* returned value, or the POST it sends.
translate(t, l, reply) ==
    LET fetched == get_supported_languages(reply) IN
    IF fetched.raised # NoExc THEN fetched
    ELSE LET all_langs == subscript(fetched.value, "supported_languages") IN
    IF all_langs.raised # NoExc THEN all_langs
    ELSE LET lang == detect_language_of(t) IN
    IF ~lang.language THEN Ret([text |-> ""])
    ELSE LET src_lang == first_match(all_langs.value, lower(lang.iso_code_639_3.name)) IN
    IF src_lang.raised # NoExc THEN src_lang
    ELSE LET tgt == subscript(LANG_2_FLORES, l) IN
    IF tgt.raised # NoExc THEN tgt
    ELSE Send(Post(MT \o "/translate",
                   [text |-> t, src_lang |-> src_lang.value, tgt_lang |-> tgt.value]))

\* translate, lines 49-50, from the reply to the POST on
translate_response(reply) ==
    IF reply.exc # NoExc THEN Raise(reply.exc) ELSE json_loads(reply.text)

-----------------------------------------------------------------------------
(* Files *)

\* The uploadable files: their content as UTF-8 text, or bytes that are not UTF-8.
Files ==
    [f \in {"hello.txt", "bonjour.txt", "empty.txt", "latin1.txt"} |->
        CASE f = "hello.txt"   -> [utf8 |-> TRUE, content |-> "Hello world"]
          [] f = "bonjour.txt" -> [utf8 |-> TRUE, content |-> "Bonjour"]
          [] f = "empty.txt"   -> [utf8 |-> TRUE, content |-> ""]
          [] f = "latin1.txt"  -> [utf8 |-> FALSE, content |-> None]]

\* upload_file returning the path instead of the text read
upload_file_path(file) ==
    IF Files[file].utf8 THEN Ret(file) ELSE Raise("UnicodeDecodeError")

\* upload_file, lines 63-66
upload_file(file) ==
    IF Files[file].utf8 THEN Ret(Files[file].content) ELSE Raise("UnicodeDecodeError")

-----------------------------------------------------------------------------
(* Inputs.  A profile names the sets the inputs of a specification are drawn *)
(* from: the texts typed, the files uploaded, the languages selected, the    *)
(* replies of each endpoint, and how many handlers may be in flight at once. *)

eng_Latn == <<"e", "n", "g", "_", "L", "a", "t", "n">>
eng_Brai == <<"e", "n", "g", "_", "B", "r", "a", "i">>
deu_Latn == <<"d", "e", "u", "_", "L", "a", "t", "n">>

SupportedLists == SeqsUpTo({eng_Latn, eng_Brai, deu_Latn}, MaxLangs)

GetReplies(lists) ==
    {ConnectionError, Response(NotJSON), Response(Json([detail |-> "Not Found"]))}
    \cup {Response(Json([supported_languages |-> all_langs])) : all_langs \in lists}

PostReplies(dicts) ==
    {ConnectionError, Response(NotJSON)} \cup {Response(Json(d)) : d \in dicts}

greeting == << <<"term", "greeting">>, <<"score", "0.9">> >>
farewell == << <<"term", "farewell">> >>
person == << <<"score", "0.5">>, <<"label", "PER">> >>

ResultLists == SeqsUpTo({greeting, farewell, person}, MaxRecords)

\* a dict with any subset of the keys text, detail, results
Dicts(texts, details, results) ==
    LET opt(k, S) == {<<>>} \cup {[x \in {k} |-> v] : v \in S} IN
    {a @@ b @@ c : a \in opt("text", texts), b \in opt("detail", details),
                   c \in opt("results", results)}

-----------------------------------------------------------------------------
(* The user interface *)

NoCall == [fn |-> "none"]

Init ==
    /\ text = ""
    /\ tgt_lang = None
    /\ table_output = DataFrame(<<>>, <<>>)
    /\ translate_output = Str("")
    /\ calls = <<>>
    /\ finished = NoCall
    /\ arrived = NoCall

\* the wiring with the output of ner_button.click set to translate_output
outputs_ner_astray(fn) ==
    CASE fn = "upload_file" -> "text"
      [] fn = "classify"    -> "table_output"
      [] fn = "ner"         -> "translate_output"
      [] fn = "translate"   -> "translate_output"

\* lines 97-102: the component each event writes
outputs(fn) ==
    CASE fn = "upload_file" -> "text"
      [] fn = "classify"    -> "table_output"
      [] fn = "ner"         -> "table_output"
      [] fn = "translate"   -> "translate_output"

\* Gradio sets the output component of an event to the value its handler
\* returned, and leaves it alone when the handler raised.
Write(component, fn, out, old) ==
    IF outputs(fn) = component /\ out.raised = NoExc THEN out.value ELSE old

\* the user edits the text box
TypeText(P) ==
    /\ \E t \in P.texts : text' = t
    /\ finished' = NoCall
    /\ UNCHANGED <<tgt_lang, table_output, translate_output, calls, arrived>>

\* line 97: upload_button.upload(upload_file, inputs=upload_button, outputs=text)
Upload(P) ==
    \E file \in P.files :
        LET out == upload_file(file) IN
        /\ text' = Write("text", "upload_file", out, text)
        /\ table_output' = Write("table_output", "upload_file", out, table_output)
        /\ translate_output' = Write("translate_output", "upload_file", out, translate_output)
        /\ finished' = [fn |-> "upload_file", file |-> file, out |-> out]
        /\ UNCHANGED <<tgt_lang, calls, arrived>>

\* the user picks one of the choices of the dropdown (line 92)
SelectLanguage(P) ==
    /\ \E l \in P.choices : tgt_lang' = l
    /\ finished' = NoCall
    /\ UNCHANGED <<text, table_output, translate_output, calls, arrived>>

\* an invocation that sends its first request twice
Call_twice(fn, t, l, req) ==
    [fn |-> fn, text |-> t, tgt_lang |-> l, reqs |-> <<req, req>>, replies |-> <<>>,
     overtaken |-> FALSE]

\* a handler invocation that has sent its first request
Call(fn, t, l, req) ==
    [fn |-> fn, text |-> t, tgt_lang |-> l, reqs |-> <<req>>, replies |-> <<>>,
     overtaken |-> FALSE]

Start(P, call) ==
    /\ Len(calls) < P.inflight
    /\ calls' = Append(calls, call)
    /\ finished' = NoCall
    /\ UNCHANGED <<text, tgt_lang, table_output, translate_output, arrived>>

\* line 98, up to the POST of line 28
ClickClassify(P) == Start(P, Call("classify", text, None, classify_request(text)))

\* line 99, up to the POST of line 33
ClickNer(P) == Start(P, Call("ner", text, None, ner_request(text)))

\* lines 100-102, up to the GET of line 38
ClickTranslate(P) ==
    Start(P, Call("translate", text, tgt_lang, get_supported_languages_request))

\* the two triggers of the "Information Extraction" column
TableTriggers == {"classify", "ner"}

\* calls without the i-th; when the i-th is of a table trigger, the calls of
\* table triggers clicked before it are marked as overtaken by a later click
Without(i) ==
    LET mark(j) == IF calls[i].fn \in TableTriggers /\ calls[j].fn \in TableTriggers
                   THEN [calls[j] EXCEPT !.overtaken = TRUE] ELSE calls[j]
    IN [j \in 1..(Len(calls) - 1) |-> IF j < i THEN mark(j) ELSE calls[j + 1]]

\* The handler of call i ends, fn having returned or raised `response`:
\* request normalizes it and the value goes to the output of the event.
Finish(i, reply, response) ==
    LET out == request(response)
        done == [fn |-> calls[i].fn, text |-> calls[i].text,
                 tgt_lang |-> calls[i].tgt_lang, reqs |-> calls[i].reqs,
                 replies |-> Append(calls[i].replies, reply),
                 overtaken |-> calls[i].overtaken, response |-> response, out |-> out]
    IN /\ calls' = Without(i)
       /\ finished' = done
       /\ arrived' = IF done.fn \in TableTriggers
                     THEN [fn |-> done.fn, overtaken |-> done.overtaken,
                           response |-> response]
                     ELSE arrived
       /\ table_output' = Write("table_output", done.fn, out, table_output)
       /\ translate_output' = Write("translate_output", done.fn, out, translate_output)
       /\ UNCHANGED <<text, tgt_lang>>

\* lines 28-29 and 55-60
ClassifyReturns(P) ==
    \E i \in 1..Len(calls), reply \in P.classify :
        /\ calls[i].fn = "classify"
        /\ Finish(i, reply, classify(reply))

\* lines 33-34 and 55-60
NerReturns(P) ==
    \E i \in 1..Len(calls), reply \in P.ner :
        /\ calls[i].fn = "ner"
        /\ Finish(i, reply, ner(reply))

\* lines 42-49: the GET returns; translate raises, returns or sends the POST
SupportedLanguagesReturn(P) ==
    \E i \in 1..Len(calls), reply \in P.supported_languages :
        /\ calls[i].fn = "translate"
        /\ Len(calls[i].replies) = 0
        /\ LET step == translate(calls[i].text, calls[i].tgt_lang, reply) IN
           IF "send" \in DOMAIN step
           THEN /\ calls' = [calls EXCEPT ![i].reqs = Append(@, step.send),
                                          ![i].replies = Append(@, reply)]
                /\ finished' = NoCall
                /\ UNCHANGED <<text, tgt_lang, table_output, translate_output, arrived>>
           ELSE Finish(i, reply, step)

\* lines 49-50 and 55-60
TranslateReturns(P) ==
    \E i \in 1..Len(calls), reply \in P.translate :
        /\ calls[i].fn = "translate"
        /\ Len(calls[i].replies) = 1
        /\ Finish(i, reply, translate_response(reply))

-----------------------------------------------------------------------------
(* Spec: concurrent use.  Up to MaxInFlight handlers are in flight at once   *)
(* and their replies arrive in any order.                                    *)

UIProfile ==
    [texts |-> {"Hello world"},
     files |-> {"hello.txt"},
     choices |-> {"German"},
     supported_languages |-> {ConnectionError,
                              Response(Json([supported_languages |-> <<eng_Latn>>]))},
     classify |-> PostReplies({[results |-> <<greeting>>], [detail |-> "Not Found"]}),
     ner |-> PostReplies({[results |-> <<person>>]}),
     translate |-> PostReplies({[text |-> "Hallo Welt"]}),
     inflight |-> MaxInFlight]

UITypeText == TypeText(UIProfile)
UIUpload == Upload(UIProfile)
UISelectLanguage == SelectLanguage(UIProfile)
UIClickClassify == ClickClassify(UIProfile)
UIClickNer == ClickNer(UIProfile)
UIClickTranslate == ClickTranslate(UIProfile)
UIClassifyReturns == ClassifyReturns(UIProfile)
UINerReturns == NerReturns(UIProfile)
UISupportedLanguagesReturn == SupportedLanguagesReturn(UIProfile)
UITranslateReturns == TranslateReturns(UIProfile)

Next ==
    \/ UITypeText
    \/ UIUpload
    \/ UISelectLanguage
    \/ UIClickClassify
    \/ UIClickNer
    \/ UIClickTranslate
    \/ UIClassifyReturns
    \/ UINerReturns
    \/ UISupportedLanguagesReturn
    \/ UITranslateReturns

Spec == Init /\ [][Next]_vars

-----------------------------------------------------------------------------
(* SpecCall: one interaction at a time, with every sample text and file,     *)
(* every supported-language list of up to MaxLangs codes and every kind of   *)
(* reply.                                                                    *)

CallProfile ==
    [texts |-> DOMAIN langdetector,
     files |-> DOMAIN Files,
     choices |-> {"German", "English"},
     supported_languages |-> GetReplies(SupportedLists),
     classify |-> PostReplies({[results |-> <<greeting>>], [detail |-> "Not Found"]}),
     ner |-> PostReplies({[results |-> <<person>>], [detail |-> "Not Found"]}),
     translate |-> PostReplies({[text |-> "Hallo Welt"], [detail |-> "Not Found"]}),
     inflight |-> 1]

CallTypeText == TypeText(CallProfile)
CallUpload == Upload(CallProfile)
CallSelectLanguage == SelectLanguage(CallProfile)
CallClickClassify == ClickClassify(CallProfile)
CallClickNer == ClickNer(CallProfile)
CallClickTranslate == ClickTranslate(CallProfile)
CallClassifyReturns == ClassifyReturns(CallProfile)
CallNerReturns == NerReturns(CallProfile)
CallSupportedLanguagesReturn == SupportedLanguagesReturn(CallProfile)
CallTranslateReturns == TranslateReturns(CallProfile)

NextCall ==
    \/ CallTypeText
    \/ CallUpload
    \/ CallSelectLanguage
    \/ CallClickClassify
    \/ CallClickNer
    \/ CallClickTranslate
    \/ CallClassifyReturns
    \/ CallNerReturns
    \/ CallSupportedLanguagesReturn
    \/ CallTranslateReturns

SpecCall == Init /\ [][NextCall]_vars

-----------------------------------------------------------------------------
(* SpecNorm: one interaction at a time, the classify endpoint answering with *)
(* every dict over the keys text, detail and results (results of up to       *)
(* MaxRecords records).                                                      *)

NormProfile ==
    [texts |-> {"Hello world"},
     files |-> {"hello.txt"},
     choices |-> {"German"},
     supported_languages |-> {Response(Json([supported_languages |-> <<eng_Latn>>]))},
     classify |-> PostReplies(Dicts({"Hallo Welt", ""}, {"Not Found"}, ResultLists)),
     ner |-> PostReplies({[results |-> <<person>>]}),
     translate |-> PostReplies({[text |-> "Hallo Welt"]}),
     inflight |-> 1]

NormTypeText == TypeText(NormProfile)
NormUpload == Upload(NormProfile)
NormSelectLanguage == SelectLanguage(NormProfile)
NormClickClassify == ClickClassify(NormProfile)
NormClickNer == ClickNer(NormProfile)
NormClickTranslate == ClickTranslate(NormProfile)
NormClassifyReturns == ClassifyReturns(NormProfile)
NormNerReturns == NerReturns(NormProfile)
NormSupportedLanguagesReturn == SupportedLanguagesReturn(NormProfile)
NormTranslateReturns == TranslateReturns(NormProfile)

NextNorm ==
    \/ NormTypeText
    \/ NormUpload
    \/ NormSelectLanguage
    \/ NormClickClassify
    \/ NormClickNer
    \/ NormClickTranslate
    \/ NormClassifyReturns
    \/ NormNerReturns
    \/ NormSupportedLanguagesReturn
    \/ NormTranslateReturns

SpecNorm == Init /\ [][NextNorm]_vars

-----------------------------------------------------------------------------
(* Vocabulary of the properties *)

Handlers == {"classify", "ner", "translate"}

\* the handler invocations the state holds: those in flight and the one that
\* has just ended
Invocations == Range(calls) \cup (IF finished.fn \in Handlers THEN {finished} ELSE {})

\* the reply to GET supported_languages is a JSON object with the list
FetchedOK(reply) ==
    /\ reply.exc = NoExc
    /\ reply.text.json
    /\ "supported_languages" \in DOMAIN reply.text.value

Fetched(reply) == reply.text.value.supported_languages

IsPost(req, url) == req.method = "POST" /\ req.url = url
IsGet(req, url) == req.method = "GET" /\ req.url = url

TranslateURL == "https://quest.ms.mff.cuni.cz/dimbu/translate"
SupportedURL == "https://quest.ms.mff.cuni.cz/dimbu/supported_languages"

NoTranslatePost(c) == \A k \in 1..Len(c.reqs) : ~IsPost(c.reqs[k], TranslateURL)

\* the ISO 639-3 codes of the languages the detector reports, in lower case
IsoOf ==
    [t \in {"Hello world", "Bonjour"} |->
        IF t = "Hello world" THEN <<"e", "n", "g">> ELSE <<"f", "r", "a">>]

-----------------------------------------------------------------------------
(* C1 *)

\* C1: the normalizer dispatches in the priority text > detail > results: a
\* response with a "text" key yields that string whatever other keys are
\* present; a response with "detail" and no "text" yields the detail string,
\* also when "results" is present; a table is built from "results" only when
\* neither "text" nor "detail" is present.
C1_DispatchPriority ==
    finished.fn \in Handlers /\ finished.response.raised = NoExc =>
        LET d == finished.response.value IN
        /\ "text" \in DOMAIN d => finished.out = Ret(Str(d.text))
        /\ "detail" \in DOMAIN d /\ "text" \notin DOMAIN d
               => finished.out = Ret(Str(d.detail))
        /\ finished.out.raised = NoExc /\ finished.out.value.type = "DataFrame"
               => DOMAIN d \cap {"text", "detail"} = {}

\* a response with all three keys came back and its text was shown
C1_Witness ==
    /\ finished.fn = "classify"
    /\ finished.response.raised = NoExc
    /\ DOMAIN finished.response.value = {"text", "detail", "results"}
    /\ finished.response.value.text = "Hallo Welt"
    /\ Len(finished.response.value.results) = 2
    /\ table_output = Str("Hallo Welt")

-----------------------------------------------------------------------------
(* C2 *)

\* C2: for a response with "results" and neither "text" nor "detail" the
\* normalizer returns a table with one row per record, in the same order,
\* whose columns are the fields of the records without "score"; no "score"
\* column is left and every other field keeps its value.
C2_TableOfResults ==
    finished.fn \in Handlers /\ finished.response.raised = NoExc
    /\ DOMAIN finished.response.value = {"results"} =>
        LET results == finished.response.value.results
            fields(i) == {results[i][k][1] : k \in 1..Len(results[i])}
        IN /\ finished.out.raised = NoExc
           /\ finished.out.value.type = "DataFrame"
           /\ LET table == finished.out.value IN
              /\ Len(table.rows) = Len(results)
              /\ "score" \notin Range(table.columns)
              /\ Range(table.columns) = UNION {fields(i) : i \in 1..Len(results)} \ {"score"}
              /\ \A i \in 1..Len(results) :
                    /\ DOMAIN table.rows[i] = Range(table.columns)
                    /\ \A k \in 1..Len(results[i]) :
                          results[i][k][1] # "score"
                              => table.rows[i][results[i][k][1]] = results[i][k][2]

\* two records, one of them scored, became a two-row table without the score
C2_Witness ==
    /\ finished.fn = "classify"
    /\ finished.response = Ret([results |-> <<greeting, person>>])
    /\ table_output = finished.out.value
    /\ Len(table_output.rows) = 2
    /\ Range(table_output.columns) = {"term", "label"}
    /\ table_output.rows[1].term = "greeting"
    /\ table_output.rows[2].label = "PER"

-----------------------------------------------------------------------------
(* C3 *)

\* C3 as stated: whenever no language is detected in the text, translate
\* returns exactly {"text": ""} and sends no POST to the translate endpoint.
C3_AsStated ==
    finished.fn = "translate" /\ ~detect_language_of(finished.text).language =>
        /\ finished.response.raised = NoExc
        /\ finished.response.value = [text |-> ""]
        /\ NoTranslatePost(finished)

\* C3, amended: whenever no language is detected in the text, translate sends
\* no POST to the translate endpoint; it returns exactly {"text": ""} if the
\* GET for the supported languages came back with a JSON object holding the
\* list, and raises the error of that GET otherwise.
C3_Undetected ==
    finished.fn = "translate" /\ ~detect_language_of(finished.text).language =>
        /\ NoTranslatePost(finished)
        /\ Len(finished.replies) = 1
        /\ IF FetchedOK(finished.replies[1])
           THEN /\ finished.response.raised = NoExc
                /\ finished.response.value = [text |-> ""]
           ELSE finished.response.raised
                    \in {"ConnectionError", "JSONDecodeError", "KeyError"}

\* a text of digits was translated with a target selected and a list fetched
C3_Witness ==
    /\ finished.fn = "translate"
    /\ finished.text = "12345"
    /\ finished.tgt_lang = "German"
    /\ FetchedOK(finished.replies[1])
    /\ Fetched(finished.replies[1]) = <<eng_Latn, deu_Latn>>
    /\ finished.response = Ret([text |-> ""])
    /\ translate_output = Str("")

-----------------------------------------------------------------------------
(* C4 *)

\* the least position of all_langs holding a code that starts with c
FirstWith(all_langs, c, i) ==
    /\ i \in 1..Len(all_langs)
    /\ startswith(all_langs[i], c)
    /\ \A j \in 1..(i - 1) : ~startswith(all_langs[j], c)

\* C4: when detection yields the ISO 639-3 code c, the target name n is in the
\* name-to-code table and some fetched code starts with c, translate sends a
\* POST whose src_lang is the first element, in list order, of the fetched
\* list that starts with c and whose tgt_lang is the table entry of n.
C4_ResolvedPair ==
    \A call \in Invocations :
        call.fn = "translate" /\ Len(call.replies) >= 1 =>
            LET t == call.text
                n == call.tgt_lang
            IN /\ Len(call.reqs) = 2 =>
                    /\ t \in DOMAIN IsoOf
                    /\ n \in DOMAIN LANG_2_FLORES
                    /\ \E i \in 1..Len(Fetched(call.replies[1])) :
                          /\ FirstWith(Fetched(call.replies[1]), IsoOf[t], i)
                          /\ call.reqs[2].json.src_lang = Fetched(call.replies[1])[i]
                    /\ call.reqs[2].json.tgt_lang = LANG_2_FLORES[n]
                    /\ call.reqs[2].json.text = t
               /\ ( /\ t \in DOMAIN IsoOf
                    /\ n \in DOMAIN LANG_2_FLORES
                    /\ FetchedOK(call.replies[1])
                    /\ \E i \in 1..Len(Fetched(call.replies[1])) :
                          startswith(Fetched(call.replies[1])[i], IsoOf[t]) )
                  => Len(call.reqs) = 2 /\ IsPost(call.reqs[2], TranslateURL)

\* English text, target German, two supported codes that start with "eng":
\* the POST carries the one listed first
C4_Witness ==
    \E call \in Invocations :
        /\ call.fn = "translate"
        /\ call.text = "Hello world"
        /\ call.tgt_lang = "German"
        /\ Len(call.reqs) = 2
        /\ Fetched(call.replies[1]) = <<eng_Brai, eng_Latn>>
        /\ call.reqs[2].json.src_lang = eng_Brai
        /\ call.reqs[2].json.tgt_lang = deu_Latn

-----------------------------------------------------------------------------
(* C5 *)

\* C5: when the ISO code of the detected language is a prefix of no fetched
\* code, translate returns {"text": ""}, sends no POST to the translate
\* endpoint and does not end in an error.
C5_UnsupportedIsEmpty ==
    /\ finished.fn = "translate"
    /\ finished.text \in DOMAIN IsoOf
    /\ FetchedOK(finished.replies[1])
    /\ \A i \in 1..Len(Fetched(finished.replies[1])) :
          ~startswith(Fetched(finished.replies[1])[i], IsoOf[finished.text])
    => /\ finished.response.raised = NoExc
       /\ finished.response.value = [text |-> ""]
       /\ NoTranslatePost(finished)

-----------------------------------------------------------------------------
(* C6 *)

\* C6 as stated: every invocation of classify, ner or translate has sent
\* exactly one request when it ends.
C6_AsStated == finished.fn \in Handlers => Len(finished.reqs) = 1

\* C6, amended: classify and ner each send exactly one request per
\* invocation, a POST to their endpoint; translate sends exactly one GET for
\* the supported languages and at most one POST to the translate endpoint,
\* hence one or two requests; no request is sent again, whether it succeeded
\* or failed: an invocation that has ended got one reply per request.
C6_RequestsPerInvocation ==
    \A call \in Invocations :
        /\ call.fn = "classify" =>
              call.reqs = <<[method |-> "POST",
                             url |-> "https://semtag-api.dev.memorise.sdu.dk/semtag/classify",
                             json |-> [text |-> call.text]]>>
        /\ call.fn = "ner" =>
              call.reqs = <<[method |-> "POST",
                             url |-> "https://semtag-api.dev.memorise.sdu.dk/ner/ner",
                             json |-> [text |-> call.text]]>>
        /\ call.fn = "translate" =>
              /\ Len(call.reqs) \in {1, 2}
              /\ Cardinality({k \in 1..Len(call.reqs) : IsGet(call.reqs[k], SupportedURL)}) = 1
              /\ Cardinality({k \in 1..Len(call.reqs) : IsPost(call.reqs[k], TranslateURL)})
                    = Len(call.reqs) - 1
        /\ call = finished => Len(call.replies) = Len(call.reqs)

\* a translate invocation ended after two requests, the second of which failed
C6_Witness ==
    /\ finished.fn = "translate"
    /\ Len(finished.reqs) = 2
    /\ finished.replies[2] = ConnectionError
    /\ finished.response.raised = "ConnectionError"

-----------------------------------------------------------------------------
(* C7 *)

\* C7 as stated: whenever the fetched supported-language list is empty or the
\* fetch fails, translate ends in an error and sends no POST, for every text.
C7_AsStated ==
    /\ finished.fn = "translate"
    /\ \/ ~FetchedOK(finished.replies[1])
       \/ Fetched(finished.replies[1]) = <<>>
    => /\ finished.response.raised # NoExc
       /\ NoTranslatePost(finished)

\* C7, amended: whenever the fetch of the supported-language list fails,
\* translate ends in the propagated error of the fetch, for every text; when
\* the fetched list is empty, translate ends in an error (an IndexError) if a
\* language is detected and returns {"text": ""} if none is; in all these
\* cases no POST to the translate endpoint is sent.
C7_EmptyOrFailedFetch ==
    /\ finished.fn = "translate"
    /\ \/ ~FetchedOK(finished.replies[1])
       \/ Fetched(finished.replies[1]) = <<>>
    => /\ NoTranslatePost(finished)
       /\ IF ~FetchedOK(finished.replies[1])
          THEN /\ finished.response.raised =
                      (IF finished.replies[1].exc # NoExc THEN finished.replies[1].exc
                       ELSE IF ~finished.replies[1].text.json THEN "JSONDecodeError"
                       ELSE "KeyError")
               /\ finished.out.raised = finished.response.raised
          ELSE IF finished.text \in DOMAIN IsoOf
          THEN /\ finished.response.raised = "IndexError"
               /\ finished.out.raised = "IndexError"
          ELSE /\ finished.response.raised = NoExc
               /\ finished.response.value = [text |-> ""]

\* the fetch failed while the text had no detectable language
C7_Witness ==
    /\ finished.fn = "translate"
    /\ finished.text = ""
    /\ finished.replies = <<ConnectionError>>
    /\ finished.response.raised = "ConnectionError"

-----------------------------------------------------------------------------
(* C8 *)

\* C8: with several handlers that write table_output in flight, whatever the
\* order of the steps, table_output holds the normalized result of the
\* response that arrived last, whichever trigger was clicked last.
C8_LastArrivalWins ==
    arrived.fn \in TableTriggers =>
        LET response == arrived.response IN
        /\ response.raised = NoExc /\ "text" \in DOMAIN response.value
              => table_output = Str(response.value.text)
        /\ response.raised = NoExc /\ DOMAIN response.value = {"detail"}
              => table_output = Str(response.value.detail)
        /\ response.raised = NoExc /\ DOMAIN response.value = {"results"}
              => /\ table_output.type = "DataFrame"
                 /\ Len(table_output.rows) = Len(response.value.results)
                 /\ \A i \in 1..Len(response.value.results) :
                       \A k \in 1..Len(response.value.results[i]) :
                           LET field == response.value.results[i][k] IN
                           field[1] # "score" => table_output.rows[i][field[1]] = field[2]

\* ner was clicked before classify and its response arrived after the one of
\* classify: the table shows the entities, while a classify clicked later
\* still is in flight
C8_Witness ==
    /\ arrived.fn = "ner"
    /\ arrived.overtaken
    /\ arrived.response = Ret([results |-> <<person>>])
    /\ table_output = DataFrame(<<"label">>, <<[label |-> "PER"]>>)
    /\ \E i \in 1..Len(calls) : calls[i].fn = "classify"

-----------------------------------------------------------------------------
(* C9 *)

\* C9: in every translate invocation the GET for the supported languages is
\* the first request and is sent exactly once, also when no language is
\* detected; the POST, if any, is sent after the GET has returned the list
\* and a language was detected; at most one POST is sent.
C9_GetThenPost ==
    \A call \in Invocations :
        call.fn = "translate" =>
            /\ IsGet(call.reqs[1], SupportedURL)
            /\ \A k \in 2..Len(call.reqs) :
                  /\ k = 2
                  /\ IsPost(call.reqs[k], TranslateURL)
                  /\ Len(call.replies) >= 1
                  /\ FetchedOK(call.replies[1])
                  /\ detect_language_of(call.text).language
            /\ call \in Range(calls) => Len(call.replies) = Len(call.reqs) - 1

\* an invocation ended after its GET and then its POST were answered
C9_Witness ==
    /\ finished.fn = "translate"
    /\ finished.reqs[1] = [method |-> "GET", url |-> SupportedURL]
    /\ Len(finished.reqs) = 2
    /\ Len(finished.replies) = 2
    /\ finished.response = Ret([text |-> "Hallo Welt"])

-----------------------------------------------------------------------------
(* C10 *)

\* C10: each trigger writes only its own output.  The end of a classify or
\* ner handler leaves translate_output and the text box as they are and sets
\* table_output to its result; the end of a translate handler leaves
\* table_output and the text box as they are and sets translate_output; an
\* upload leaves both outputs as they are and sets the text box to exactly
\* the content of the file; clicks change none of the three.
C10_Frame ==
    [][ /\ finished'.fn \in {"classify", "ner"} =>
              /\ translate_output' = translate_output
              /\ text' = text
              /\ finished'.out.raised = NoExc => table_output' = finished'.out.value
        /\ finished'.fn = "translate" =>
              /\ table_output' = table_output
              /\ text' = text
              /\ finished'.out.raised = NoExc => translate_output' = finished'.out.value
        /\ finished'.fn = "upload_file" =>
              /\ table_output' = table_output
              /\ translate_output' = translate_output
              /\ Files[finished'.file].utf8 => text' = Files[finished'.file].content
        /\ Len(calls') > Len(calls) =>
              /\ table_output' = table_output
              /\ translate_output' = translate_output
              /\ text' = text
      ]_vars

\* bonjour.txt was uploaded over another text, after both outputs were written
C10_Witness ==
    /\ finished.fn = "upload_file"
    /\ finished.file = "bonjour.txt"
    /\ text = "Bonjour"
    /\ table_output = DataFrame(<<"term">>, <<[term |-> "greeting"]>>)
    /\ translate_output = Str("Hallo Welt")

====
